---- MODULE Spec2Model ----
(***************************************************************************)
(* Model of the notes manager in src/app/page.tsx (component NotesApp).    *)
(* The React state of the component, the 'notes' slot of localStorage and  *)
(* the event handlers are modelled; every handler is followed by the       *)
(* re-render and the effects that its state updates schedule.              *)
(*                                                                         *)
(* Strings are sequences of one-character strings, so that trim,           *)
(* toLowerCase, includes and the default sort order are computed.          *)
(* A nullable value is <<>> (null) or <<v>>.                               *)
(***************************************************************************)
EXTENDS Integers, Sequences, FiniteSets, TLC

\* ------------------------------------------------------------------ bounds
\* crypto.randomUUID() is called at most MaxIds times.
MaxIds == 2
\* A note is added only while the collection has fewer than MaxNotes notes.
MaxNotes == 2

\* ----------------------------------------------------------------- strings
Null == <<>>
Some(x) == <<x>>

EmptyStr == <<>>

\* String.prototype.toLowerCase, per character.
LowerChar(c) ==
  CASE c = "A" -> "a"
    [] c = "B" -> "b"
    [] c = "H" -> "h"
    [] c = "O" -> "o"
    [] c = "W" -> "w"
    [] OTHER -> c

ToLowerCase(s) == [i \in 1..Len(s) |-> LowerChar(s[i])]

IsSpace(c) == c = " "

RECURSIVE TrimStart(_)
TrimStart(s) ==
  IF s # <<>> /\ IsSpace(Head(s)) THEN TrimStart(Tail(s)) ELSE s

RECURSIVE TrimEnd(_)
TrimEnd(s) ==
  IF s # <<>> /\ IsSpace(s[Len(s)]) THEN TrimEnd(SubSeq(s, 1, Len(s) - 1)) ELSE s

\* String.prototype.trim
Trim(s) == TrimEnd(TrimStart(s))

\* String.prototype.includes: q occurs in s as a contiguous substring.
Includes(s, q) ==
  \E i \in 0..(Len(s) - Len(q)) : SubSeq(s, i + 1, i + Len(q)) = q

\* Array.prototype.includes on an array of strings.
ArrayIncludes(arr, x) == \E i \in 1..Len(arr) : arr[i] = x

\* UTF-16 code unit of a character (the order Array.prototype.sort uses).
CharCode(c) ==
  CASE c = " " -> 32
    [] c = "A" -> 65
    [] c = "B" -> 66
    [] c = "H" -> 72
    [] c = "O" -> 79
    [] c = "W" -> 87
    [] c = "a" -> 97
    [] c = "b" -> 98
    [] c = "h" -> 104
    [] c = "o" -> 111
    [] c = "r" -> 114
    [] c = "w" -> 119
    [] OTHER -> 120

\* s sorts strictly before t in the default sort order (code-unit order).
RECURSIVE StrLess(_, _)
StrLess(s, t) ==
  IF t = <<>> THEN FALSE
  ELSE IF s = <<>> THEN TRUE
  ELSE IF CharCode(Head(s)) # CharCode(Head(t))
       THEN CharCode(Head(s)) < CharCode(Head(t))
  ELSE StrLess(Tail(s), Tail(t))

Range(seq) == {seq[i] : i \in 1..Len(seq)}

\* -------------------------------------------------------------------- JSON
\* JSON.stringify of a Note: the object's members in property order.
StringifyNote(n) ==
  << <<"id", n.id>>, <<"title", n.title>>, <<"content", n.content>>,
     <<"tags", n.tags>>, <<"createdAt", n.createdAt>>,
     <<"updatedAt", n.updatedAt>> >>

\* JSON.stringify(notes): the text written to the slot.
Stringify(ns) ==
  [kind |-> "array", items |-> [i \in 1..Len(ns) |-> StringifyNote(ns[i])]]

\* Member lookup while parsing one object.
Member(obj, key) == (CHOOSE i \in 1..Len(obj) : obj[i][1] = key)

\* A parse that loses the tags member.
ParseNoteDropsTags(obj) ==
  [id |-> obj[Member(obj, "id")][2],
   title |-> obj[Member(obj, "title")][2],
   content |-> obj[Member(obj, "content")][2],
   tags |-> <<>>,
   createdAt |-> obj[Member(obj, "createdAt")][2],
   updatedAt |-> obj[Member(obj, "updatedAt")][2]]

\* JSON.parse of one object of the array.
ParseNote(obj) ==
  [id |-> obj[Member(obj, "id")][2],
   title |-> obj[Member(obj, "title")][2],
   content |-> obj[Member(obj, "content")][2],
   tags |-> obj[Member(obj, "tags")][2],
   createdAt |-> obj[Member(obj, "createdAt")][2],
   updatedAt |-> obj[Member(obj, "updatedAt")][2]]

\* The slot's possible contents.
SlotAbsent == [kind |-> "absent", items |-> <<>>]
SlotEmptyText == [kind |-> "empty", items |-> <<>>]
SlotGarbage == [kind |-> "garbage", items |-> <<>>]

\* JSON.parse throws a SyntaxError on text that is not JSON.
ParseThrows(text) == text.kind # "array"

\* JSON.parse(text) when it does not throw.
Parse(text) == [i \in 1..Len(text.items) |-> ParseNote(text.items[i])]

\* `if (stored)`: getItem returned a non-empty string.
Truthy(slot) == slot.kind \notin {"absent", "empty"}

\* ------------------------------------------------------------------ inputs
\* Values typed into the title input, the content textarea, the tag input
\* and the search box.  In Spec the content and the search box are only ever
\* cleared; ViewSpec is where contents and queries vary.
Titles == {<<>>, <<" ">>, <<"W">>}
Contents == {<<>>}
TagInputs == {<<"B">>, <<" ", "b">>}
Queries == {<<>>}

\* Readings of Date.now().
Times == {0, 1}
Ids == 1..MaxIds

\* ------------------------------------------------------------------- state
VARIABLES
  notes,        \* useState<Note[]>: the collection
  isEditing,    \* useState(false)
  currentNote,  \* useState<Note | null>
  searchQuery,  \* useState('')
  selectedTag,  \* useState<string | null>
  title,        \* useState('')
  content,      \* useState('')
  tagInput,     \* useState('')
  currentTags,  \* useState<string[]>
  storage,      \* localStorage slot 'notes'
  crashed,      \* an effect or a render threw: the component is unmounted
  issued,       \* ids crypto.randomUUID() has returned so far
  clock,        \* history of Date.now(): last reading, and whether it ever went back
  deleted,      \* history: ids whose deletion was confirmed
  lastOp        \* history: the last load, saveNote, deleteNote, addTag or
                \* cancelEdit, or "ui" after another handler

vars == <<notes, isEditing, currentNote, searchQuery, selectedTag, title,
          content, tagInput, currentTags, storage, crashed, issued, clock,
          deleted, lastOp>>

uiVars == <<isEditing, currentNote, searchQuery, selectedTag, title, content,
            tagInput, currentTags>>
histVars == <<issued, clock, deleted>>

\* ----------------------------------------------------------- derived views
\* Set insertion order: first occurrence of each value of a sequence.
RECURSIVE Distinct(_)
Distinct(seq) ==
  IF seq = <<>> THEN <<>>
  ELSE LET init == Distinct(SubSeq(seq, 1, Len(seq) - 1))
           x == seq[Len(seq)]
       IN IF ArrayIncludes(init, x) THEN init ELSE Append(init, x)

RECURSIVE FlatTags(_)
FlatTags(ns) ==
  IF ns = <<>> THEN <<>> ELSE Head(ns).tags \o FlatTags(Tail(ns))

\* A sort that leaves the array in insertion order.
SortStringsKeepsOrder(seq) == seq

\* Array.prototype.sort() with no comparator, on strings.
RECURSIVE SortStrings(_)
SortStrings(seq) ==
  IF seq = <<>> THEN <<>>
  ELSE LET rest == SortStrings(Tail(seq))
           x == Head(seq)
           k == Cardinality({i \in 1..Len(rest) : ~StrLess(x, rest[i])})
       IN SubSeq(rest, 1, k) \o <<x>> \o SubSeq(rest, k + 1, Len(rest))

\* useMemo allTags
AllTagsOf(ns) == SortStrings(Distinct(FlatTags(ns)))
allTags == AllTagsOf(notes)

\* A search that lower-cases the note's text but not the query.
MatchesSearchRawQuery(note, query) ==
  \/ query = EmptyStr
  \/ Includes(ToLowerCase(note.title), query)
  \/ Includes(ToLowerCase(note.content), query)
  \/ \E i \in 1..Len(note.tags) : Includes(ToLowerCase(note.tags[i]), query)

\* The callback of notes.filter in filteredNotes.
MatchesSearch(note, query) ==
  \/ query = EmptyStr
  \/ Includes(ToLowerCase(note.title), ToLowerCase(query))
  \/ Includes(ToLowerCase(note.content), ToLowerCase(query))
  \/ \E i \in 1..Len(note.tags) :
       Includes(ToLowerCase(note.tags[i]), ToLowerCase(query))

MatchesTag(note, tag) ==
  tag = Null \/ ArrayIncludes(note.tags, tag[1])

NoteVisible(note, query, tag) ==
  MatchesSearch(note, query) /\ MatchesTag(note, tag)

\* A comparator with its operands swapped (ascending order).
CompareNotesAscending(a, b) == a.updatedAt - b.updatedAt

\* The comparator of the sort in filteredNotes.
CompareNotes(a, b) == b.updatedAt - a.updatedAt

\* Array.prototype.sort with a comparator (stable).
RECURSIVE SortNotes(_)
SortNotes(seq) ==
  IF seq = <<>> THEN <<>>
  ELSE LET init == SortNotes(SubSeq(seq, 1, Len(seq) - 1))
           x == seq[Len(seq)]
           k == Cardinality({i \in 1..Len(init) : CompareNotes(init[i], x) <= 0})
       IN SubSeq(init, 1, k) \o <<x>> \o SubSeq(init, k + 1, Len(init))

\* A visible list that is filtered but not sorted.
FilteredNotesUnsorted(ns, query, tag) ==
  LET Keep(n) == NoteVisible(n, query, tag)
  IN SelectSeq(ns, Keep)

\* useMemo filteredNotes
FilteredNotesOf(ns, query, tag) ==
  LET Keep(n) == NoteVisible(n, query, tag)
  IN SortNotes(SelectSeq(ns, Keep))
filteredNotes == FilteredNotesOf(notes, searchQuery, selectedTag)

\* ----------------------------------------------------------------- effects
\* useEffect(..., []) : the load effect, given what getItem returns.
\* Yields the collection after the effect and whether JSON.parse threw.
LoadEffect(stored) ==
  IF Truthy(stored)
  THEN IF ParseThrows(stored)
       THEN [notes |-> <<>>, threw |-> TRUE]
       ELSE [notes |-> Parse(stored), threw |-> FALSE]
  ELSE [notes |-> <<>>, threw |-> FALSE]

\* A persist effect that writes only collections of two or more notes.
PersistEffectSkipsSingle(ns, slot) ==
  IF Len(ns) > 1 THEN Stringify(ns) ELSE slot

\* useEffect(..., [notes]) : the persist effect; yields the slot afterwards.
PersistEffect(ns, slot) ==
  IF Len(ns) > 0 THEN Stringify(ns) ELSE slot

\* An id generator that returns the same value every time.
RandomUUIDRepeats(used) == {1}

\* crypto.randomUUID(): a value it has not returned before.  Ids are opaque
\* (the code only compares them for equality), so of the unused values the
\* least stands for any of them.
RandomUUID(used) ==
  IF Ids \ used = {} THEN {}
  ELSE {CHOOSE id \in Ids \ used : \A other \in Ids \ used : id <= other}

\* Date.now(): any reading (the wall clock can be set back).  The history
\* keeps the last reading until a reading is lower than the one before it.
Tick(c, now) ==
  IF c.back \/ (c.last # Null /\ now < c.last[1])
  THEN [last |-> Null, back |-> TRUE]
  ELSE [last |-> Some(now), back |-> FALSE]

\* History entries: the handler, the note id it concerned (0: none) and the
\* Date.now() reading it took (0: none).
OpAt(name, id, now) == [op |-> name, id |-> id, at |-> now]
Op(name, id) == OpAt(name, id, 0)

\* ------------------------------------------------------------------ mount
\* First render of the component followed by its two effects.
Mounted(slot) ==
  LET l == LoadEffect(slot)
  IN /\ notes' = l.notes
     /\ crashed' = l.threw
     /\ storage' = IF l.threw THEN slot ELSE PersistEffect(l.notes, slot)
     /\ isEditing' = FALSE
     /\ currentNote' = Null
     /\ searchQuery' = EmptyStr
     /\ selectedTag' = Null
     /\ title' = EmptyStr
     /\ content' = EmptyStr
     /\ tagInput' = EmptyStr
     /\ currentTags' = <<>>

\* The slot before the application ever wrote it.
InitialSlots == {SlotAbsent, SlotEmptyText, SlotGarbage}

Init ==
  \E slot \in InitialSlots :
    LET l == LoadEffect(slot)
    IN /\ notes = l.notes
       /\ crashed = l.threw
       /\ storage = IF l.threw THEN slot ELSE PersistEffect(l.notes, slot)
       /\ isEditing = FALSE
       /\ currentNote = Null
       /\ searchQuery = EmptyStr
       /\ selectedTag = Null
       /\ title = EmptyStr
       /\ content = EmptyStr
       /\ tagInput = EmptyStr
       /\ currentTags = <<>>
       /\ issued = {}
       /\ clock = [last |-> Null, back |-> FALSE]
       /\ deleted = {}
       /\ lastOp = Op("load", 0)

\* Page reload: the component state is lost and the component mounts again.
Reload ==
  /\ Mounted(storage)
  /\ lastOp' = Op("load", 0)
  /\ UNCHANGED histVars

\* ------------------------------------------------------- list-view handlers
ListView == ~crashed /\ ~isEditing
EditView == ~crashed /\ isEditing

startNewNote ==
  /\ ListView
  /\ isEditing' = TRUE
  /\ currentNote' = Null
  /\ title' = EmptyStr
  /\ content' = EmptyStr
  /\ currentTags' = <<>>
  /\ tagInput' = EmptyStr
  /\ lastOp' = Op("ui", 0)
  /\ UNCHANGED <<notes, storage, crashed, searchQuery, selectedTag, histVars>>

\* onClick of a note card of the visible list.
editNote ==
  /\ ListView
  /\ \E i \in 1..Len(filteredNotes) :
       LET note == filteredNotes[i]
       IN /\ isEditing' = TRUE
          /\ currentNote' = Some(note)
          /\ title' = note.title
          /\ content' = note.content
          /\ currentTags' = note.tags
          /\ tagInput' = EmptyStr
          /\ lastOp' = Op("ui", 0)
  /\ UNCHANGED <<notes, storage, crashed, searchQuery, selectedTag, histVars>>

\* A filter that keeps the notes with the id instead of the others.
RemoveNoteKeepsMatch(ns, id) ==
  LET Keep(n) == n.id = id
  IN SelectSeq(ns, Keep)

\* notes.filter(n => n.id !== id) of deleteNote.
RemoveNote(ns, id) ==
  LET Keep(n) == n.id # id
  IN SelectSeq(ns, Keep)

\* deleteNote(id); ok is what confirm() returns.
deleteNoteId(id, ok) ==
  /\ ListView
  /\ IF ok
     THEN /\ notes' = RemoveNote(notes, id)
          /\ storage' = PersistEffect(notes', storage)
          /\ deleted' = deleted \cup {id}
          /\ lastOp' = Op("deleteNote", id)
     ELSE /\ UNCHANGED <<notes, storage, deleted>>
          /\ lastOp' = Op("deleteNote:declined", id)
  /\ UNCHANGED <<uiVars, crashed, issued, clock>>

\* onClick of the Delete button of a note card.
deleteNote ==
  \E i \in 1..Len(filteredNotes), ok \in BOOLEAN :
    deleteNoteId(filteredNotes[i].id, ok)

\* onChange of the search box.
setSearchQuery(typed) ==
  /\ ListView
  /\ \E q \in typed : searchQuery' = q
  /\ lastOp' = Op("ui", 0)
  /\ UNCHANGED <<notes, storage, crashed, isEditing, currentNote, selectedTag,
                 title, content, tagInput, currentTags, histVars>>

\* onClick of the "All" button and of a tag button of the filter bar.
setSelectedTag ==
  /\ ListView
  /\ Len(allTags) > 0
  /\ \/ selectedTag' = Null
     \/ \E i \in 1..Len(allTags) :
          selectedTag' = IF selectedTag = Some(allTags[i]) THEN Null
                         ELSE Some(allTags[i])
  /\ lastOp' = Op("ui", 0)
  /\ UNCHANGED <<notes, storage, crashed, isEditing, currentNote, searchQuery,
                 title, content, tagInput, currentTags, histVars>>

\* ----------------------------------------------------- edit-view handlers
setTitle ==
  /\ EditView
  /\ \E t \in Titles : title' = t
  /\ lastOp' = Op("ui", 0)
  /\ UNCHANGED <<notes, storage, crashed, isEditing, currentNote, searchQuery,
                 selectedTag, content, tagInput, currentTags, histVars>>

setContent ==
  /\ EditView
  /\ \E c \in Contents : content' = c
  /\ lastOp' = Op("ui", 0)
  /\ UNCHANGED <<notes, storage, crashed, isEditing, currentNote, searchQuery,
                 selectedTag, title, tagInput, currentTags, histVars>>

setTagInput ==
  /\ EditView
  /\ \E t \in TagInputs \cup {EmptyStr} : tagInput' = t
  /\ lastOp' = Op("ui", 0)
  /\ UNCHANGED <<notes, storage, crashed, isEditing, currentNote, searchQuery,
                 selectedTag, title, content, currentTags, histVars>>

\* addTag without the toLowerCase call.
NormalizeTagKeepsCase(input) == Trim(input)

\* The tag addTag computes from the tag input.
NormalizeTag(input) == ToLowerCase(Trim(input))

\* An addTag that also writes the tag list into the note being edited.
addTagInPlace ==
  /\ EditView
  /\ LET tag == NormalizeTag(tagInput)
     IN IF tag # EmptyStr /\ ~ArrayIncludes(currentTags, tag)
        THEN /\ currentTags' = Append(currentTags, tag)
             /\ tagInput' = EmptyStr
        ELSE UNCHANGED <<currentTags, tagInput>>
  /\ notes' = [i \in 1..Len(notes) |->
                 IF currentNote # Null /\ notes[i].id = currentNote[1].id
                 THEN [notes[i] EXCEPT !.tags = currentTags']
                 ELSE notes[i]]
  /\ storage' = PersistEffect(notes', storage)
  /\ lastOp' = Op("addTag", 0)
  /\ UNCHANGED <<crashed, isEditing, currentNote, searchQuery, selectedTag,
                 title, content, histVars>>

\* onClick of Add, and Enter in the tag input (handleTagInputKeyDown).
addTag ==
  /\ EditView
  /\ LET tag == NormalizeTag(tagInput)
     IN IF tag # EmptyStr /\ ~ArrayIncludes(currentTags, tag)
        THEN /\ currentTags' = Append(currentTags, tag)
             /\ tagInput' = EmptyStr
        ELSE UNCHANGED <<currentTags, tagInput>>
  /\ lastOp' = Op("addTag", 0)
  /\ UNCHANGED <<notes, storage, crashed, isEditing, currentNote, searchQuery,
                 selectedTag, title, content, histVars>>

\* onClick of the remove button of a tag chip.
removeTag ==
  /\ EditView
  /\ \E i \in 1..Len(currentTags) :
       LET tagToRemove == currentTags[i]
           Keep(t) == t # tagToRemove
       IN currentTags' = SelectSeq(currentTags, Keep)
  /\ lastOp' = Op("ui", 0)
  /\ UNCHANGED <<notes, storage, crashed, isEditing, currentNote, searchQuery,
                 selectedTag, title, content, tagInput, histVars>>

\* A cancelEdit that forgets setCurrentNote(null).
CancelEditKeepsNote ==
  /\ isEditing' = FALSE
  /\ UNCHANGED currentNote
  /\ title' = EmptyStr
  /\ content' = EmptyStr
  /\ currentTags' = <<>>
  /\ tagInput' = EmptyStr

\* The state updates of cancelEdit.
CancelEditUpdates ==
  /\ isEditing' = FALSE
  /\ currentNote' = Null
  /\ title' = EmptyStr
  /\ content' = EmptyStr
  /\ currentTags' = <<>>
  /\ tagInput' = EmptyStr

cancelEdit ==
  /\ EditView
  /\ CancelEditUpdates
  /\ lastOp' = Op("cancelEdit", 0)
  /\ UNCHANGED <<notes, storage, crashed, searchQuery, selectedTag, histVars>>

\* saveNote without its early return.
IsBlankNever(t, c) == FALSE

\* `!title.trim() && !content.trim()`
IsBlank(t, c) == Trim(t) = EmptyStr /\ Trim(c) = EmptyStr

\* An update that overwrites createdAt as well.
UpdateNotesResetsCreated(ns, id, t, c, tags, now) ==
  [i \in 1..Len(ns) |->
     IF ns[i].id = id
     THEN [ns[i] EXCEPT !.title = t, !.content = c, !.tags = tags,
                        !.createdAt = now, !.updatedAt = now]
     ELSE ns[i]]

\* An update that forgets the id test and rewrites every note.
UpdateNotesAll(ns, id, t, c, tags, now) ==
  [i \in 1..Len(ns) |->
     [ns[i] EXCEPT !.title = t, !.content = c, !.tags = tags,
                   !.updatedAt = now]]

\* notes.map(...) of saveNote: the update of the note being edited.
UpdateNotes(ns, id, t, c, tags, now) ==
  [i \in 1..Len(ns) |->
     IF ns[i].id = id
     THEN [ns[i] EXCEPT !.title = t, !.content = c, !.tags = tags,
                        !.updatedAt = now]
     ELSE ns[i]]

\* newNote of saveNote.
NewNote(id, t, c, tags, now) ==
  [id |-> id, title |-> t, content |-> c, tags |-> tags,
   createdAt |-> now, updatedAt |-> now]

\* An add that puts the new note behind the others.
AddNoteAtEnd(ns, note) == ns \o <<note>>

\* [newNote, ...notes]
AddNote(ns, note) == <<note>> \o ns

\* onClick of Save.
saveNote ==
  /\ EditView
  /\ IF IsBlank(title, content)
     THEN /\ lastOp' = Op("saveNote:blank", 0)
          /\ UNCHANGED <<notes, storage, uiVars, histVars>>
     ELSE \E now \in Times :
            /\ clock' = Tick(clock, now)
            /\ IF currentNote # Null
               THEN /\ notes' = UpdateNotes(notes, currentNote[1].id, title,
                                            content, currentTags, now)
                    /\ lastOp' = OpAt("saveNote:update", currentNote[1].id, now)
                    /\ UNCHANGED issued
               ELSE \E id \in RandomUUID(issued) :
                      /\ Len(notes) < MaxNotes
                      /\ notes' = AddNote(notes, NewNote(id, title, content,
                                                         currentTags, now))
                      /\ issued' = issued \cup {id}
                      /\ lastOp' = OpAt("saveNote:add", id, now)
            /\ storage' = PersistEffect(notes', storage)
            /\ CancelEditUpdates
            /\ UNCHANGED <<searchQuery, selectedTag, deleted>>
  /\ UNCHANGED crashed

Next ==
  \/ Reload
  \/ startNewNote
  \/ editNote
  \/ deleteNote
  \/ setSearchQuery(Queries)
  \/ setSelectedTag
  \/ setTitle
  \/ setContent
  \/ setTagInput
  \/ addTag
  \/ removeTag
  \/ cancelEdit
  \/ saveNote

Spec == Init /\ [][Next]_vars

\* ---------------------------------------------------------- the view alone
\* filteredNotes and allTags are pure functions of the collection, the query
\* and the tag filter.  ViewSpec starts from any collection the editor can
\* produce out of the texts below and applies the two filter handlers.
MaxViewNotes == 2
MaxViewTime == 1

ViewTitles == {<<>>, <<"W", "o">>}
ViewContents == {<<>>, <<"o", "W">>}
ViewTagLists == {<<>>, << <<"b">> >>, << <<"w", "o">>, <<"b">> >>}
ViewQueries == {<<>>, <<"w", "o">>, <<"O", "W">>, <<"x">>}

ViewNotes(id) ==
  {NewNote(id, t, c, tags, 0) : t \in ViewTitles, c \in ViewContents,
                                tags \in ViewTagLists}

ViewCollections ==
  UNION {{ns \in [1..k -> UNION {ViewNotes(id) : id \in 1..k}] :
             \A i \in 1..k : ns[i].id = i} : k \in 0..MaxViewNotes}

ViewInit ==
  \E ns \in ViewCollections :
    \E upd \in [1..Len(ns) -> 0..MaxViewTime] :
      /\ \A i \in 1..Len(ns) : ~IsBlank(ns[i].title, ns[i].content)
      /\ notes = [i \in 1..Len(ns) |-> [ns[i] EXCEPT !.updatedAt = upd[i]]]
      /\ storage = PersistEffect(notes, SlotAbsent)
      /\ crashed = FALSE
      /\ isEditing = FALSE
      /\ currentNote = Null
      /\ searchQuery = EmptyStr
      /\ selectedTag = Null
      /\ title = EmptyStr
      /\ content = EmptyStr
      /\ tagInput = EmptyStr
      /\ currentTags = <<>>
      /\ issued = 1..Len(ns)
      /\ clock = [last |-> Null, back |-> FALSE]
      /\ deleted = {}
      /\ lastOp = Op("load", 0)

ViewNext ==
  \/ setSearchQuery(ViewQueries)
  \/ setSelectedTag

ViewSpec == ViewInit /\ [][ViewNext]_vars

\* ------------------------------------------------------- the delete alone
\* deleteNote(id) is a function of the collection and the id.  RemoveSpec
\* starts from the same collections and calls it with any id, among them
\* an id that crypto.randomUUID() never returned.
RemoveIds == 1..(MaxIds + 1)

RemoveNext == \E id \in RemoveIds, ok \in BOOLEAN : deleteNoteId(id, ok)

RemoveSpec == ViewInit /\ [][RemoveNext]_vars

\* ================================================================== claims
NoteIds(ns) == [i \in 1..Len(ns) |-> ns[i].id]
SaveOps == {"saveNote:blank", "saveNote:add", "saveNote:update"}
BothEmpty(n) == n.title = EmptyStr /\ n.content = EmptyStr

\* C1: after a confirmed deleteNote(id) no note with that id is in the
\* collection again, in memory or after any later load, also when the
\* deleted note was the only one.
DeletedStaysDeleted ==
  \A i \in 1..Len(notes) : notes[i].id \notin deleted

\* C2: after every step that leaves the collection non-empty the slot holds
\* the serialization of exactly the current collection; a step that leaves
\* the collection empty does not write the slot.
PersistInSync ==
  [][/\ Len(notes') > 0 => storage' = Stringify(notes')
     /\ Len(notes') = 0 => storage' = storage]_vars

\* C2 witness: the only note was deleted and the slot still holds it.
PersistSkippedOnEmpty ==
  /\ lastOp.op = "deleteNote"
  /\ notes = <<>>
  /\ storage.kind = "array"
  /\ Len(storage.items) = 1

\* C3: a load that finds the slot absent or unparseable ends with an empty
\* collection and without an error.
LoadNeverFails ==
  (lastOp.op = "load" /\ (~Truthy(storage) \/ ParseThrows(storage)))
    => (~crashed /\ notes = <<>>)

\* C4: saveNote with an empty title and an empty content changes neither the
\* collection nor the slot, and no note of the collection or of the slot has
\* both its title and its content empty.
BlankSaveIsNoOp ==
  /\ [][(lastOp'.op \in SaveOps /\ title = EmptyStr /\ content = EmptyStr)
          => (notes' = notes /\ storage' = storage)]_vars
  /\ [](/\ \A i \in 1..Len(notes) : ~BothEmpty(notes[i])
        /\ storage.kind = "array"
             => \A i \in 1..Len(storage.items) :
                  ~BothEmpty(ParseNote(storage.items[i])))

\* C4 witness: Save was pressed on an existing note whose title and content
\* had been cleared.
BlankSaveOfExistingNote ==
  /\ lastOp.op = "saveNote:blank"
  /\ currentNote # Null
  /\ title = EmptyStr
  /\ content = EmptyStr
  /\ Len(notes) > 0

\* C5 as stated: every note has updatedAt >= createdAt.
UpdatedNotBeforeCreated ==
  \A i \in 1..Len(notes) : notes[i].updatedAt >= notes[i].createdAt

\* C5 amended: as long as no Date.now() reading was lower than an earlier
\* one, every note has updatedAt >= createdAt; and no step changes the
\* createdAt of a note, which a new note receives from the reading of its
\* creation.
CreatedAtFixedAndNotAfterUpdate ==
  [][/\ ~clock'.back
          => \A i \in 1..Len(notes') :
               notes'[i].updatedAt >= notes'[i].createdAt
     /\ \A i \in 1..Len(notes), j \in 1..Len(notes') :
          notes[i].id = notes'[j].id
            => notes'[j].createdAt = notes[i].createdAt
     /\ lastOp'.op = "saveNote:add" => notes'[1].createdAt = lastOp'.at]_vars

\* C5 witness: a note was updated at a later reading than its creation.
UpdatedLaterThanCreated ==
  /\ lastOp.op = "saveNote:update"
  /\ ~clock.back
  /\ \E i \in 1..Len(notes) :
       /\ notes[i].id = lastOp.id
       /\ notes[i].updatedAt > notes[i].createdAt

\* C6: no two notes of the collection share an id, and an update, a delete
\* and a reload leave the ids of the notes that exist as they are.
IdsUniqueAndFixed ==
  [][/\ \A i, j \in 1..Len(notes') :
          notes'[i].id = notes'[j].id => i = j
     /\ lastOp'.op \in {"saveNote:update", "saveNote:blank", "ui", "addTag",
                        "cancelEdit", "deleteNote:declined"}
          => NoteIds(notes') = NoteIds(notes)
     /\ (lastOp'.op = "load" /\ notes # <<>>)
          => NoteIds(notes') = NoteIds(notes)
     /\ lastOp'.op = "deleteNote"
          => LET Other(id) == id # lastOp'.id
             IN NoteIds(notes') = SelectSeq(NoteIds(notes), Other)
     /\ lastOp'.op = "saveNote:add"
          => Tail(NoteIds(notes')) = NoteIds(notes)]_vars

\* C6 witness: one of two notes was updated.
UpdatedOneOfTwo ==
  /\ lastOp.op = "saveNote:update"
  /\ Len(notes) = 2
  /\ notes[1].id # notes[2].id

\* C7: neither the edit buffer's tag list nor the tag list of any note has
\* two entries that are equal ignoring case.
NoCaseDuplicates(tags) ==
  \A i, j \in 1..Len(tags) :
    ToLowerCase(tags[i]) = ToLowerCase(tags[j]) => i = j

NoCaseVariantTags ==
  /\ NoCaseDuplicates(currentTags)
  /\ \A i \in 1..Len(notes) : NoCaseDuplicates(notes[i].tags)

\* C7 witness: "B" was added while the buffer already held "b".
CaseVariantRejected ==
  /\ lastOp.op = "addTag"
  /\ tagInput = <<"B">>
  /\ currentTags = << <<"b">> >>

\* C8: the visible notes are exactly the notes that contain the query,
\* ignoring case, in their title, content or a tag (or the query is empty)
\* and that carry the selected tag (or no tag is selected).
CasePairs ==
  {<<"A", "a">>, <<"B", "b">>, <<"H", "h">>, <<"O", "o">>, <<"W", "w">>}

SameIgnoringCase(a, b) ==
  a = b \/ <<a, b>> \in CasePairs \/ <<b, a>> \in CasePairs

ContainsIgnoringCase(text, q) ==
  \E off \in 0..(Len(text) - Len(q)) :
    \A k \in 1..Len(q) : SameIgnoringCase(text[off + k], q[k])

ShouldBeVisible(n) ==
  /\ \/ searchQuery = EmptyStr
     \/ ContainsIgnoringCase(n.title, searchQuery)
     \/ ContainsIgnoringCase(n.content, searchQuery)
     \/ \E t \in Range(n.tags) : ContainsIgnoringCase(t, searchQuery)
  /\ selectedTag = Null \/ selectedTag[1] \in Range(n.tags)

VisibleSetExact ==
  /\ Range(filteredNotes) = {n \in Range(notes) : ShouldBeVisible(n)}
  /\ Len(filteredNotes) = Cardinality(Range(filteredNotes))

\* C8 witness: with a query in capitals and a selected tag, one note is
\* shown and another is hidden.
FilteredByQueryAndTag ==
  /\ lastOp.op = "ui"
  /\ searchQuery = <<"O", "W">>
  /\ selectedTag # Null
  /\ Len(notes) = 2
  /\ Len(filteredNotes) = 1

\* C9: with an empty query and no selected tag every note is visible exactly
\* once, and the visible list is always in descending order of updatedAt.
AllVisibleAndNewestFirst ==
  /\ (searchQuery = EmptyStr /\ selectedTag = Null)
       => /\ Len(filteredNotes) = Len(notes)
          /\ \A i \in 1..Len(notes) :
               Cardinality({j \in 1..Len(filteredNotes) :
                              filteredNotes[j] = notes[i]}) = 1
  /\ \A i \in 1..(Len(filteredNotes) - 1) :
       filteredNotes[i].updatedAt >= filteredNotes[i + 1].updatedAt

\* C9 witness: the filters were cleared and the collection is not in display
\* order, so that the sort reorders it.
SortReorders ==
  /\ lastOp.op = "ui"
  /\ searchQuery = EmptyStr
  /\ selectedTag = Null
  /\ Len(notes) = 2
  /\ notes[1].updatedAt < notes[2].updatedAt
  /\ filteredNotes[1] = notes[2]

\* The effect C10 describes, of a Save pressed while a note is being edited.
UpdateEffect ==
  /\ Len(notes') = Len(notes)
  /\ \A i \in 1..Len(notes) :
       IF notes[i].id = currentNote[1].id
       THEN notes'[i] = [id |-> notes[i].id, title |-> title,
                         content |-> content, tags |-> currentTags,
                         createdAt |-> notes[i].createdAt,
                         updatedAt |-> lastOp'.at]
       ELSE notes'[i] = notes[i]

\* C10 as stated: Save while an existing note is being edited, with a
\* non-empty title or a non-empty content, replaces that note's title,
\* content and tags and sets its updatedAt; the rest is unchanged.
UpdateWhenNotEmpty ==
  [][(/\ lastOp'.op \in SaveOps
      /\ currentNote # Null
      /\ (title # EmptyStr \/ content # EmptyStr))
        => UpdateEffect]_vars

\* C10 amended: the same whenever the title or the content holds a character
\* that is not white space; and the notes.map of the update, applied to the
\* collection with an id that no note has, leaves it as it is, and applied
\* with any title and content replaces them in the matching note only.
UpdateWhenNotBlank ==
  [][/\ (/\ lastOp'.op \in SaveOps
         /\ currentNote # Null
         /\ (Trim(title) # EmptyStr \/ Trim(content) # EmptyStr))
           => (UpdateEffect /\ lastOp'.op = "saveNote:update")
     /\ lastOp'.op = "saveNote:update"
           => /\ \A id \in Ids :
                   (\A i \in 1..Len(notes) : notes[i].id # id)
                     => UpdateNotes(notes, id, title, content, currentTags,
                                    lastOp'.at) = notes
              /\ \A t \in ViewTitles, c \in ViewContents, k \in 1..Len(notes) :
                   LET r == UpdateNotes(notes, notes[k].id, t, c, currentTags,
                                        lastOp'.at)
                   IN /\ Len(r) = Len(notes)
                      /\ \A i \in 1..Len(notes) :
                           IF i = k
                           THEN r[i] = [id |-> notes[k].id, title |-> t,
                                        content |-> c, tags |-> currentTags,
                                        createdAt |-> notes[k].createdAt,
                                        updatedAt |-> lastOp'.at]
                           ELSE r[i] = notes[i]
    ]_vars

\* C10 witness: the second of two notes was updated with a new tag list at
\* a reading other than that of its creation, and the first has no tag.
UpdatedSecondNote ==
  /\ lastOp.op = "saveNote:update"
  /\ Len(notes) = 2
  /\ notes[2].id = lastOp.id
  /\ notes[1].tags = <<>>
  /\ notes[2].tags = << <<"b">> >>
  /\ notes[2].updatedAt # notes[2].createdAt

\* The effect C11 describes, of a Save pressed while no note is being edited.
AddEffect ==
  /\ Len(notes') = Len(notes) + 1
  /\ notes'[1].id \notin issued
  /\ \A i \in 1..Len(notes) : notes[i].id # notes'[1].id
  /\ notes'[1] = [id |-> notes'[1].id, title |-> title, content |-> content,
                  tags |-> currentTags, createdAt |-> lastOp'.at,
                  updatedAt |-> lastOp'.at]
  /\ Tail(notes') = notes

\* C11 as stated: Save while no note is being edited, with a non-empty title
\* or a non-empty content, puts one new note in front of the collection, with
\* a fresh id, both time stamps at the reading and the buffer's title,
\* content and tags; the notes that existed keep their fields and order.
AddWhenNotEmpty ==
  [][(/\ lastOp'.op \in SaveOps
      /\ currentNote = Null
      /\ (title # EmptyStr \/ content # EmptyStr))
        => AddEffect]_vars

\* C11 amended: the same whenever the title or the content holds a character
\* that is not white space; and the construction of the new collection,
\* applied with any title and content, puts exactly that note in front of
\* the notes that existed.
AddWhenNotBlank ==
  [][/\ (/\ lastOp'.op \in SaveOps
         /\ currentNote = Null
         /\ (Trim(title) # EmptyStr \/ Trim(content) # EmptyStr))
           => (AddEffect /\ lastOp'.op = "saveNote:add")
     /\ lastOp'.op = "saveNote:add"
           => \A t \in ViewTitles, c \in ViewContents :
                LET r == AddNote(notes, NewNote(lastOp'.id, t, c, currentTags,
                                                lastOp'.at))
                IN /\ Len(r) = Len(notes) + 1
                   /\ r[1] = [id |-> lastOp'.id, title |-> t, content |-> c,
                              tags |-> currentTags, createdAt |-> lastOp'.at,
                              updatedAt |-> lastOp'.at]
                   /\ Tail(r) = notes
    ]_vars

\* C11 witness: a note with a tag was added in front of a note without one.
AddedInFront ==
  /\ lastOp.op = "saveNote:add"
  /\ Len(notes) = 2
  /\ notes[1].id = lastOp.id
  /\ notes[1].tags = << <<"b">> >>
  /\ notes[2].tags = <<>>
  /\ notes[1].createdAt = lastOp.at

\* C12: a confirmed deleteNote(id) with an id that no note of the collection
\* has leaves the collection as it is, note for note and in the same order,
\* and leaves the content of the slot as it is.
DeleteOfMissingIdIsNoOp ==
  [][(/\ lastOp'.op = "deleteNote"
      /\ \A i \in 1..Len(notes) : notes[i].id # lastOp'.id)
        => (notes' = notes /\ storage' = storage)]_vars

\* C12 witness: deleteNote was confirmed for an id that was never issued,
\* while the collection held two notes, the slot their serialization.
DeletedMissingId ==
  /\ lastOp.op = "deleteNote"
  /\ lastOp.id \notin issued
  /\ Len(notes) = 2
  /\ notes[1].tags # notes[2].tags
  /\ storage = Stringify(notes)

\* C13: a page reload from a non-empty collection ends with the same
\* collection, note for note, field for field and in the same order, and
\* in every state with a non-empty collection the load effect applied to
\* what the persist effect writes yields that collection.
ReloadRoundTrip ==
  /\ [][(lastOp'.op = "load" /\ notes # <<>>)
          => (notes' = notes /\ ~crashed')]_vars
  /\ [](notes # <<>>
          => LoadEffect(PersistEffect(notes, storage))
               = [notes |-> notes, threw |-> FALSE])

\* C13 witness: the page was reloaded with two notes, the first with a tag
\* and an update after its creation.
ReloadedTwoNotes ==
  /\ lastOp.op = "load"
  /\ Len(notes) = 2
  /\ notes[1].tags = << <<"b">> >>
  /\ notes[1].updatedAt # notes[1].createdAt
  /\ notes[2].tags = <<>>

\* C14: startNewNote, editNote, typing in the inputs, addTag, removeTag and
\* cancelEdit leave the collection, with the tag list of the note being
\* edited, and the slot as they are; a handler that changes the collection
\* or the slot is a saveNote that was not ignored or a confirmed deleteNote.
\* (A page load is not a handler: it leaves the slot as it is and reads the
\* collection from it.)
StoreChangedOnlyBySaveOrDelete ==
  [][/\ lastOp'.op \in {"ui", "addTag", "cancelEdit"}
          => (notes' = notes /\ storage' = storage)
     /\ (storage' # storage \/ (notes' # notes /\ lastOp'.op # "load"))
          => lastOp'.op \in {"saveNote:add", "saveNote:update",
                             "deleteNote"}]_vars

\* C14 witness: a tag was added to the buffer of an existing note; the note
\* in the collection and in the slot still has no tag.
TagAddedToBufferOnly ==
  /\ lastOp.op = "addTag"
  /\ currentNote # Null
  /\ currentTags = << <<"b">> >>
  /\ \E i \in 1..Len(notes) :
       notes[i].id = currentNote[1].id /\ notes[i].tags = <<>>
  /\ storage = Stringify(notes)

\* Lexicographic order of strings over the characters of the model.
Alphabet ==
  <<" ", "A", "B", "H", "O", "W", "a", "b", "h", "o", "r", "w", "x">>

Rank(c) == CHOOSE k \in 1..Len(Alphabet) : Alphabet[k] = c

LexBefore(s, t) ==
  \E k \in 0..Len(s) :
    /\ k <= Len(t)
    /\ \A j \in 1..k : s[j] = t[j]
    /\ \/ k = Len(s) /\ k < Len(t)
       \/ k < Len(s) /\ k < Len(t) /\ Rank(s[k + 1]) < Rank(t[k + 1])

\* C15: allTags holds exactly the tags that occur in a note of the current
\* collection, each once, in ascending lexicographic order; a tag that only
\* a deleted note carried is not in it.
TagUniverseExact ==
  /\ Range(allTags) = UNION {Range(notes[i].tags) : i \in 1..Len(notes)}
  /\ \A i, j \in 1..Len(allTags) : i < j => LexBefore(allTags[i], allTags[j])

\* C15 witness: the second of two notes was deleted; the note that is left
\* carries "wo" and "b" in this order, and allTags lists "b" before "wo".
TagsSortedAfterDelete ==
  /\ lastOp.op = "deleteNote"
  /\ lastOp.id = 2
  /\ lastOp.id \in issued
  /\ Len(notes) = 1
  /\ notes[1].tags = << <<"w", "o">>, <<"b">> >>
  /\ allTags = << <<"b">>, <<"w", "o">> >>

\* C16: selectedTag is null or a member of allTags, also after a delete or
\* an update took the selected tag from the last note that carried it.
SelectedTagExists ==
  selectedTag = Null \/ ArrayIncludes(allTags, selectedTag[1])

\* C17: when currentNote is not null, isEditing is true and a note of the
\* collection has currentNote's id (so the update of saveNote finds it);
\* when isEditing is false, currentNote is null and the title, the content,
\* the tag list and the tag input of the buffer are empty.
EditedNoteExists ==
  /\ currentNote # Null
       => /\ isEditing
          /\ \E i \in 1..Len(notes) : notes[i].id = currentNote[1].id
  /\ ~isEditing
       => /\ currentNote = Null
          /\ title = EmptyStr
          /\ content = EmptyStr
          /\ currentTags = <<>>
          /\ tagInput = EmptyStr

\* C17 witness: the second of two notes is open in the editor with a tag
\* list that differs from the note's.
EditingSecondNote ==
  /\ isEditing
  /\ currentNote # Null
  /\ Len(notes) = 2
  /\ currentNote[1].id = notes[2].id
  /\ currentTags # notes[2].tags
  /\ lastOp.op = "addTag"

\* A Save that was not ignored has just run, no Date.now() reading was lower
\* than an earlier one, the query is empty and no tag is selected.
AfterSaveUnfiltered ==
  /\ lastOp'.op \in {"saveNote:add", "saveNote:update"}
  /\ ~clock'.back
  /\ searchQuery' = EmptyStr
  /\ selectedTag' = Null

\* C18 as stated: right after a Save that was not ignored, with an empty
\* query and no selected tag, the saved note is the first of the visible
\* list, provided no Date.now() reading was lower than an earlier one.
SavedNoteShownFirstAlways ==
  [][AfterSaveUnfiltered
       => LET after == notes'
              id == lastOp'.id
          IN FilteredNotesOf(after, EmptyStr, Null)[1].id = id]_vars

\* C18 amended: the same for a new note, also when readings repeat, and for
\* an updated note when no note that precedes it in the collection has the
\* reading of the save as its updatedAt.
SavedNoteShownFirst ==
  [][AfterSaveUnfiltered
       => LET after == notes'
              id == lastOp'.id
              now == lastOp'.at
              k == CHOOSE i \in 1..Len(after) : after[i].id = id
          IN /\ lastOp'.op = "saveNote:add" => k = 1
             /\ (\A i \in 1..(k - 1) : after[i].updatedAt # now)
                  => FilteredNotesOf(after, EmptyStr, Null)[1].id = id]_vars

\* C18 witness: the second note of the collection was updated at a later
\* reading than the first and is shown first.
UpdatedNoteMovesToTop ==
  /\ lastOp.op = "saveNote:update"
  /\ ~clock.back
  /\ searchQuery = EmptyStr
  /\ selectedTag = Null
  /\ Len(notes) = 2
  /\ notes[2].id = lastOp.id
  /\ notes[2].updatedAt > notes[1].updatedAt
  /\ filteredNotes[1] = notes[2]

====
